---- MODULE Spec2Model ----
(***************************************************************************)
(* Model of kostal-modbusquery.py: the class kostal_modbusquery (register  *)
(* catalog built by __init__, the Read* decode routines, run()) and the    *)
(* __main__ block that calls run() and computes the derived quantities.    *)
(*                                                                         *)
(* Each AdrNNN attribute is a Python list [address, name, type, value].    *)
(* No statement assigns the first three fields after __init__, so they are *)
(* read from Catalog; the variable Adr maps the number NNN of the          *)
(* attribute to the value field AdrNNN[3], and AdrList(NNN) is the list.   *)
(* KostalRegister is a Python list of REFERENCES to those lists, so it is  *)
(* modelled as a sequence of attribute numbers: what a caller reads from   *)
(* KostalRegister[i] is whatever Adr holds for that attribute at the time. *)
(*                                                                         *)
(* Values: a decoded value is a record [k, n, s]: k = "i" integer n,       *)
(* k = "f" float rounded to two decimals held as n hundredths, k = "s"     *)
(* byte string s, k = "x" non-finite float.                                *)
(***************************************************************************)
EXTENDS Integers, Sequences, FiniteSets, TLC

\* ---------------------------------------------------------------- bounds
\* number of run() calls made on the one object
MaxPasses == 2
\* number of distinct register images the device can present to a pass
NumImages == 3

\* ------------------------------------------------- catalog (__init__)
Catalog ==
  <<
     [adr |-> 6, name |-> "Inverter article number", type |-> "Strg8"],
     [adr |-> 46, name |-> "Software-Version IO-Controller (IOC)", type |-> "Strg8"],
     [adr |-> 56, name |-> "Inverter State", type |-> "U16"],
     [adr |-> 100, name |-> "Total DC power", type |-> "Float"],
     [adr |-> 104, name |-> "State of energy manager", type |-> "Float"],
     [adr |-> 106, name |-> "Home own consumption from battery", type |-> "Float"],
     [adr |-> 108, name |-> "Home own consumption from grid", type |-> "Float"],
     [adr |-> 110, name |-> "Total home consumption Battery", type |-> "Float"],
     [adr |-> 112, name |-> "Total home consumption Grid", type |-> "Float"],
     [adr |-> 114, name |-> "Total home consumption PV", type |-> "Float"],
     [adr |-> 116, name |-> "Home own consumption from PV", type |-> "Float"],
     [adr |-> 118, name |-> "Total home consumption", type |-> "Float"],
     [adr |-> 120, name |-> "Isolation resistance", type |-> "Float"],
     [adr |-> 122, name |-> "Power limit from EVU", type |-> "Float"],
     [adr |-> 124, name |-> "Total home consumption rate", type |-> "Float"],
     [adr |-> 144, name |-> "Worktime", type |-> "Float"],
     [adr |-> 150, name |-> "Actual cos phi", type |-> "Float"],
     [adr |-> 152, name |-> "Grid frequency", type |-> "Float"],
     [adr |-> 154, name |-> "Current Phase 1", type |-> "Float"],
     [adr |-> 156, name |-> "Active power Phase 1", type |-> "Float"],
     [adr |-> 158, name |-> "Voltage Phase 1", type |-> "Float"],
     [adr |-> 160, name |-> "Current Phase 2", type |-> "Float"],
     [adr |-> 162, name |-> "Active power Phase 2", type |-> "Float"],
     [adr |-> 164, name |-> "Voltage Phase 2", type |-> "Float"],
     [adr |-> 166, name |-> "Current Phase 3", type |-> "Float"],
     [adr |-> 168, name |-> "Active power Phase 3", type |-> "Float"],
     [adr |-> 170, name |-> "Voltage Phase 3", type |-> "Float"],
     [adr |-> 172, name |-> "Total AC active power", type |-> "Float"],
     [adr |-> 174, name |-> "Total AC reactive power", type |-> "Float"],
     [adr |-> 178, name |-> "Total AC apparent power", type |-> "Float"],
     [adr |-> 190, name |-> "Battery charge current", type |-> "Float"],
     [adr |-> 194, name |-> "Number of battery cycles", type |-> "Float"],
     [adr |-> 200, name |-> "Actual battery charge -minus or discharge -plus current", type |-> "Float"],
     [adr |-> 202, name |-> "PSSB fuse state", type |-> "Float"],
     [adr |-> 208, name |-> "Battery ready flag", type |-> "Float"],
     [adr |-> 210, name |-> "Act. state of charge", type |-> "Float"],
     [adr |-> 214, name |-> "Battery temperature", type |-> "Float"],
     [adr |-> 216, name |-> "Battery voltage", type |-> "Float"],
     [adr |-> 218, name |-> "Cos phi (powermeter)", type |-> "Float"],
     [adr |-> 220, name |-> "Frequency (powermeter)", type |-> "Float"],
     [adr |-> 222, name |-> "Current phase 1 (powermeter)", type |-> "Float"],
     [adr |-> 224, name |-> "Active power phase 1 (powermeter)", type |-> "Float"],
     [adr |-> 226, name |-> "Reactive power phase 1 (powermeter)", type |-> "Float"],
     [adr |-> 228, name |-> "Apparent power phase 1 (powermeter)", type |-> "Float"],
     [adr |-> 230, name |-> "Voltage phase 1 (powermeter)", type |-> "Float"],
     [adr |-> 232, name |-> "Current phase 2 (powermeter)", type |-> "Float"],
     [adr |-> 234, name |-> "Active power phase 2 (powermeter)", type |-> "Float"],
     [adr |-> 236, name |-> "Reactive power phase 2 (powermeter)", type |-> "Float"],
     [adr |-> 238, name |-> "Apparent power phase 2 (powermeter)", type |-> "Float"],
     [adr |-> 240, name |-> "Voltage phase 2 (powermeter)", type |-> "Float"],
     [adr |-> 242, name |-> "Current phase 3 (powermeter)", type |-> "Float"],
     [adr |-> 244, name |-> "Active power phase 3 (powermeter)", type |-> "Float"],
     [adr |-> 246, name |-> "Reactive power phase 3 (powermeter)", type |-> "Float"],
     [adr |-> 248, name |-> "Apparent power phase 3 (powermeter)", type |-> "Float"],
     [adr |-> 250, name |-> "Voltage phase 3 (powermeter)", type |-> "Float"],
     [adr |-> 252, name |-> "Total active power (powermeter)", type |-> "Float"],
     [adr |-> 254, name |-> "Total reactive power (powermeter)", type |-> "Float"],
     [adr |-> 256, name |-> "Total apparent power (powermeter)", type |-> "Float"],
     [adr |-> 258, name |-> "Current DC1", type |-> "Float"],
     [adr |-> 260, name |-> "Power DC1", type |-> "Float"],
     [adr |-> 266, name |-> "Voltage DC1", type |-> "Float"],
     [adr |-> 268, name |-> "Current DC2", type |-> "Float"],
     [adr |-> 270, name |-> "Power DC2", type |-> "Float"],
     [adr |-> 276, name |-> "Voltage DC2", type |-> "Float"],
     [adr |-> 278, name |-> "Current DC3", type |-> "Float"],
     [adr |-> 280, name |-> "Power DC3", type |-> "Float"],
     [adr |-> 286, name |-> "Voltage DC3", type |-> "Float"],
     [adr |-> 320, name |-> "Total yield", type |-> "Float"],
     [adr |-> 322, name |-> "Daily yield", type |-> "Float"],
     [adr |-> 324, name |-> "Yearly yield", type |-> "Float"],
     [adr |-> 326, name |-> "Monthly yield", type |-> "Float"],
     [adr |-> 512, name |-> "Battery Gross Capacity", type |-> "U32"],
     [adr |-> 514, name |-> "Battery actual SOC", type |-> "U16"],
     [adr |-> 515, name |-> "Firmware Maincontroller (MC)", type |-> "U32"],
     [adr |-> 517, name |-> "Battery Manufacturer", type |-> "Strg8"],
     [adr |-> 525, name |-> "Battery Model ID", type |-> "U32"],
     [adr |-> 527, name |-> "Battery Serial Number", type |-> "U32"],
     [adr |-> 529, name |-> "Battery Operation mode", type |-> "U32"],
     [adr |-> 531, name |-> "Inverter Max Power", type |-> "Float"],
     [adr |-> 575, name |-> "Inverter Generation Power (actual)", type |-> "S16"],
     [adr |-> 577, name |-> "Generation Energy", type |-> "U32"],
     [adr |-> 578, name |-> "Total energy", type |-> "U32"],
     [adr |-> 580, name |-> "Battery Net Capacity", type |-> "U32"],
     [adr |-> 582, name |-> "Actual battery charge-discharge power", type |-> "S16"],
     [adr |-> 586, name |-> "Battery Firmware", type |-> "U32"],
     [adr |-> 588, name |-> "Battery Type", type |-> "U16"],
     [adr |-> 768, name |-> "Productname", type |-> "Strg32"],
     [adr |-> 800, name |-> "Power Class", type |-> "Strg32"],
     [adr |-> 1024, name |-> "Battery charge power (AC) setpoint", type |-> "S16"],
     [adr |-> 1025, name |-> "Power Scale Factor", type |-> "S16"],
     [adr |-> 1026, name |-> "Battery charge power (AC) setpoint, absolute", type |-> "R32"],
     [adr |-> 1028, name |-> "Battery charge current (DC) setpoint, relative", type |-> "R32"],
     [adr |-> 1030, name |-> "Battery charge power (AC) setpoint, relative", type |-> "R32"],
     [adr |-> 1032, name |-> "Battery charge current (DC) setpoint, absolute", type |-> "R32"],
     [adr |-> 1034, name |-> "Battery charge power (DC) setpoint, absolute", type |-> "R32"],
     [adr |-> 1036, name |-> "Battery charge power (DC) setpoint, relative", type |-> "R32"],
     [adr |-> 1038, name |-> "Battery max charge power limit, absolute", type |-> "U32"],
     [adr |-> 1040, name |-> "Battery max discharge power limit, absolute", type |-> "U32"],
     [adr |-> 1042, name |-> "Minimum SOC", type |-> "U32"],
     [adr |-> 1044, name |-> "Maximum SOC", type |-> "U32"],
     [adr |-> 1046, name |-> "Total DC charge energy (DC-side to battery)", type |-> "R32"],
     [adr |-> 1048, name |-> "Total DC discharge energy (DC-side from battery)", type |-> "R32"],
     [adr |-> 1050, name |-> "Total AC charge energy (AC-side to battery)", type |-> "R32"],
     [adr |-> 1052, name |-> "Total AC discharge energy (Battery to grid)", type |-> "R32"],
     [adr |-> 1054, name |-> "Total AC charge energy (grid to battery)", type |-> "R32"],
     [adr |-> 1056, name |-> "Total DC PV energy (sum of all PV inputs)", type |-> "R32"],
     [adr |-> 1058, name |-> "Total DC energy from PV1", type |-> "R32"],
     [adr |-> 1060, name |-> "Total DC energy from PV2", type |-> "R32"],
     [adr |-> 1062, name |-> "Total DC energy from PV3", type |-> "R32"],
     [adr |-> 1064, name |-> "Total energy AC-side to grid", type |-> "R32"],
     [adr |-> 1066, name |-> "Total DC power (sum of all PV inputs)", type |-> "R32"],
     [adr |-> 1068, name |-> "Battery work capacity", type |-> "R32"],
     [adr |-> 1070, name |-> "Battery serial number", type |-> "U32"],
     [adr |-> 1076, name |-> "Maximum charge power limit (readout from battery)", type |-> "R32"],
     [adr |-> 1078, name |-> "Maximum discharge power limit (readout from battery)", type |-> "R32"],
     [adr |-> 1080, name |-> "Battery management mode", type |-> "U8"],
     [adr |-> 1082, name |-> "Installed sensor type", type |-> "U8"]
  >>

\* the run() body, in statement order: AdrDST[3] = self.FN(AdrSRC[0])
ReadPlan ==
  <<
     [dst |-> 6, src |-> 6, fn |-> "ReadStr8"],
     [dst |-> 46, src |-> 46, fn |-> "ReadStr8"],
     [dst |-> 56, src |-> 56, fn |-> "ReadU16_1"],
     [dst |-> 100, src |-> 100, fn |-> "ReadFloat"],
     [dst |-> 104, src |-> 104, fn |-> "ReadFloat"],
     [dst |-> 106, src |-> 106, fn |-> "ReadFloat"],
     [dst |-> 108, src |-> 108, fn |-> "ReadFloat"],
     [dst |-> 110, src |-> 110, fn |-> "ReadFloat"],
     [dst |-> 112, src |-> 112, fn |-> "ReadFloat"],
     [dst |-> 114, src |-> 114, fn |-> "ReadFloat"],
     [dst |-> 116, src |-> 116, fn |-> "ReadFloat"],
     [dst |-> 118, src |-> 118, fn |-> "ReadFloat"],
     [dst |-> 120, src |-> 120, fn |-> "ReadFloat"],
     [dst |-> 122, src |-> 122, fn |-> "ReadFloat"],
     [dst |-> 124, src |-> 124, fn |-> "ReadFloat"],
     [dst |-> 144, src |-> 144, fn |-> "ReadFloat"],
     [dst |-> 150, src |-> 150, fn |-> "ReadFloat"],
     [dst |-> 152, src |-> 152, fn |-> "ReadFloat"],
     [dst |-> 154, src |-> 154, fn |-> "ReadFloat"],
     [dst |-> 156, src |-> 156, fn |-> "ReadFloat"],
     [dst |-> 158, src |-> 158, fn |-> "ReadFloat"],
     [dst |-> 160, src |-> 160, fn |-> "ReadFloat"],
     [dst |-> 162, src |-> 162, fn |-> "ReadFloat"],
     [dst |-> 162, src |-> 162, fn |-> "ReadFloat"],
     [dst |-> 164, src |-> 164, fn |-> "ReadFloat"],
     [dst |-> 166, src |-> 166, fn |-> "ReadFloat"],
     [dst |-> 168, src |-> 168, fn |-> "ReadFloat"],
     [dst |-> 170, src |-> 170, fn |-> "ReadFloat"],
     [dst |-> 172, src |-> 172, fn |-> "ReadFloat"],
     [dst |-> 174, src |-> 174, fn |-> "ReadFloat"],
     [dst |-> 178, src |-> 178, fn |-> "ReadFloat"],
     [dst |-> 190, src |-> 190, fn |-> "ReadFloat"],
     [dst |-> 194, src |-> 194, fn |-> "ReadFloat"],
     [dst |-> 200, src |-> 200, fn |-> "ReadFloat"],
     [dst |-> 202, src |-> 202, fn |-> "ReadFloat"],
     [dst |-> 208, src |-> 208, fn |-> "ReadFloat"],
     [dst |-> 210, src |-> 210, fn |-> "ReadFloat"],
     [dst |-> 214, src |-> 214, fn |-> "ReadFloat"],
     [dst |-> 216, src |-> 216, fn |-> "ReadFloat"],
     [dst |-> 218, src |-> 218, fn |-> "ReadFloat"],
     [dst |-> 220, src |-> 220, fn |-> "ReadFloat"],
     [dst |-> 222, src |-> 222, fn |-> "ReadFloat"],
     [dst |-> 224, src |-> 224, fn |-> "ReadFloat"],
     [dst |-> 226, src |-> 226, fn |-> "ReadFloat"],
     [dst |-> 228, src |-> 228, fn |-> "ReadFloat"],
     [dst |-> 230, src |-> 230, fn |-> "ReadFloat"],
     [dst |-> 232, src |-> 232, fn |-> "ReadFloat"],
     [dst |-> 234, src |-> 234, fn |-> "ReadFloat"],
     [dst |-> 236, src |-> 236, fn |-> "ReadFloat"],
     [dst |-> 238, src |-> 238, fn |-> "ReadFloat"],
     [dst |-> 240, src |-> 240, fn |-> "ReadFloat"],
     [dst |-> 242, src |-> 242, fn |-> "ReadFloat"],
     [dst |-> 244, src |-> 244, fn |-> "ReadFloat"],
     [dst |-> 246, src |-> 246, fn |-> "ReadFloat"],
     [dst |-> 248, src |-> 248, fn |-> "ReadFloat"],
     [dst |-> 250, src |-> 250, fn |-> "ReadFloat"],
     [dst |-> 252, src |-> 252, fn |-> "ReadFloat"],
     [dst |-> 254, src |-> 254, fn |-> "ReadFloat"],
     [dst |-> 256, src |-> 256, fn |-> "ReadFloat"],
     [dst |-> 258, src |-> 258, fn |-> "ReadFloat"],
     [dst |-> 260, src |-> 260, fn |-> "ReadFloat"],
     [dst |-> 266, src |-> 266, fn |-> "ReadFloat"],
     [dst |-> 268, src |-> 268, fn |-> "ReadFloat"],
     [dst |-> 270, src |-> 270, fn |-> "ReadFloat"],
     [dst |-> 276, src |-> 276, fn |-> "ReadFloat"],
     [dst |-> 278, src |-> 278, fn |-> "ReadFloat"],
     [dst |-> 280, src |-> 280, fn |-> "ReadFloat"],
     [dst |-> 286, src |-> 286, fn |-> "ReadFloat"],
     [dst |-> 320, src |-> 320, fn |-> "ReadFloat"],
     [dst |-> 322, src |-> 322, fn |-> "ReadFloat"],
     [dst |-> 324, src |-> 324, fn |-> "ReadFloat"],
     [dst |-> 326, src |-> 326, fn |-> "ReadFloat"],
     [dst |-> 512, src |-> 512, fn |-> "ReadU32new"],
     [dst |-> 514, src |-> 514, fn |-> "ReadU16_1"],
     [dst |-> 515, src |-> 515, fn |-> "ReadU32new"],
     [dst |-> 517, src |-> 517, fn |-> "ReadStr8"],
     [dst |-> 525, src |-> 525, fn |-> "ReadU32"],
     [dst |-> 527, src |-> 527, fn |-> "ReadU32"],
     [dst |-> 529, src |-> 529, fn |-> "ReadU32new"],
     [dst |-> 531, src |-> 531, fn |-> "ReadU16_1"],
     [dst |-> 575, src |-> 575, fn |-> "ReadS16"],
     [dst |-> 577, src |-> 577, fn |-> "ReadU32"],
     [dst |-> 580, src |-> 580, fn |-> "ReadU32new"],
     [dst |-> 582, src |-> 582, fn |-> "ReadS16"],
     [dst |-> 586, src |-> 586, fn |-> "ReadU32"],
     [dst |-> 588, src |-> 588, fn |-> "ReadU16_1"],
     [dst |-> 768, src |-> 768, fn |-> "ReadStr32"],
     [dst |-> 800, src |-> 800, fn |-> "ReadStr32"],
     [dst |-> 1024, src |-> 1024, fn |-> "ReadS16"],
     [dst |-> 1025, src |-> 1025, fn |-> "ReadS16"],
     [dst |-> 1026, src |-> 1026, fn |-> "ReadFloat"],
     [dst |-> 1028, src |-> 1028, fn |-> "ReadFloat"],
     [dst |-> 1030, src |-> 1030, fn |-> "ReadFloat"],
     [dst |-> 1032, src |-> 1032, fn |-> "ReadFloat"],
     [dst |-> 1034, src |-> 1034, fn |-> "ReadFloat"],
     [dst |-> 1036, src |-> 1036, fn |-> "ReadFloat"],
     [dst |-> 1038, src |-> 1038, fn |-> "ReadFloat"],
     [dst |-> 1040, src |-> 1040, fn |-> "ReadFloat"],
     [dst |-> 1042, src |-> 1042, fn |-> "ReadFloat"],
     [dst |-> 1044, src |-> 1044, fn |-> "ReadFloat"],
     [dst |-> 1068, src |-> 1068, fn |-> "ReadFloat"],
     [dst |-> 1070, src |-> 1070, fn |-> "ReadU32"],
     [dst |-> 1076, src |-> 1076, fn |-> "ReadFloat"],
     [dst |-> 1078, src |-> 1078, fn |-> "ReadFloat"],
     [dst |-> 1080, src |-> 1080, fn |-> "ReadU8"],
     [dst |-> 1082, src |-> 1082, fn |-> "ReadU8"],
     [dst |-> 1046, src |-> 1046, fn |-> "ReadFloat"],
     [dst |-> 1048, src |-> 1048, fn |-> "ReadFloat"],
     [dst |-> 1050, src |-> 1050, fn |-> "ReadFloat"],
     [dst |-> 1052, src |-> 1052, fn |-> "ReadFloat"],
     [dst |-> 1054, src |-> 1054, fn |-> "ReadFloat"],
     [dst |-> 1056, src |-> 1056, fn |-> "ReadFloat"],
     [dst |-> 1058, src |-> 1058, fn |-> "ReadFloat"],
     [dst |-> 1060, src |-> 1060, fn |-> "ReadFloat"],
     [dst |-> 1062, src |-> 1062, fn |-> "ReadFloat"],
     [dst |-> 1064, src |-> 1064, fn |-> "ReadFloat"],
     [dst |-> 1066, src |-> 1066, fn |-> "ReadFloat"],
     [dst |-> 1038, src |-> 1038, fn |-> "ReadFloat"]
  >>

\* the run() body: KostalRegister.append(self.AdrNNN), in statement order
AppendPlan ==
  <<
     6, 46, 56, 100, 104, 106, 108, 110, 112, 114, 116, 118,
     120, 122, 124, 144, 150, 152, 154, 156, 158, 160, 162, 164,
     166, 168, 170, 172, 174, 178, 190, 194, 200, 202, 208, 210,
     214, 216, 218, 220, 222, 224, 226, 228, 230, 232, 234, 236,
     238, 240, 242, 244, 246, 248, 250, 252, 254, 256, 258, 260,
     266, 268, 270, 276, 278, 280, 286, 320, 322, 324, 326, 512,
     514, 515, 517, 525, 527, 529, 531, 575, 577, 580, 582, 586,
     588, 768, 800, 1024, 1025, 1026, 1028, 1030, 1032, 1034, 1036, 1038,
     1040, 1042, 1044, 1068, 1070, 1076, 1078, 1080, 1082, 1046, 1048, 1050,
     1052, 1054, 1056, 1058, 1060, 1062, 1064, 1066, 1038
  >>

CatalogAdrs == {Catalog[i].adr : i \in 1..Len(Catalog)}

CatalogNames == {Catalog[i].name : i \in 1..Len(Catalog)}

\* NNN -> the constant fields of self.AdrNNN (tabulated once)
DescriptorOf ==
  [a \in CatalogAdrs |-> Catalog[CHOOSE i \in 1..Len(Catalog) : Catalog[i].adr = a]]
    @@ <<>>

Descriptor(a) == DescriptorOf[a]

IntVal(n) == [k |-> "i", n |-> n, s |-> <<>>]

FloatVal(h) == [k |-> "f", n |-> h, s |-> <<>>]

StrVal(b) == [k |-> "s", n |-> 0, s |-> b]

NonFinite == [k |-> "x", n |-> 0, s |-> <<>>]

\* ------------------------------------------------------------ the device
\* What the inverter answers to read_holding_registers(adr, n, unit=71):
\* n consecutive 16-bit registers of its register file.  The layout follows
\* the Kostal register list quoted in the file header.  The file depends on
\* the image g the device presents during a pass: the registers of
\* VaryingRegs (a text, a measurement, register 575) differ from image to
\* image, every other register holds the same words in every image.
VaryingRegs == {6, 7, 100, 101, 575}

Raw575Samples == <<32767, 32766, 65535, 32768, 0, 1>>

WordSamples == <<0, 1, 7, 65535, 32768>>

\* <<low word, high word>> of 120.5, 80.3, 48.0, -5.0, 0.125, 2.675
FloatSamples ==
  << <<0, 17137>>, <<39322, 17056>>, <<0, 16960>>,
     <<0, 49312>>, <<0, 15872>>, <<13107, 16427>> >>

DevStr8 == {6, 46, 517}

DevStr32 == {768, 800}

DevWord16 == {56, 514, 531, 575, 582, 588, 1024, 1025, 1080, 1082}

DevU32 == {512, 515, 525, 527, 529, 577, 580, 586, 1070}

DevFloat == CatalogAdrs \ (DevStr8 \cup DevStr32 \cup DevWord16 \cup DevU32 \cup {578})

Pick(samples, i) == samples[(i % Len(samples)) + 1]

\* text of 2g+1 bytes "AB", "AC", ... then one byte and NUL padding
StrReg(g, off) ==
  IF off < g THEN 16706 + off
  ELSE IF off = g THEN 17152
  ELSE 0

RegOf(g, r) ==
  IF r = 575 THEN Pick(Raw575Samples, g - 1)
  ELSE IF r \in DevWord16 THEN Pick(WordSamples, r + g)
  ELSE IF \E b \in DevStr8 : r \in b..(b + 7)
    THEN StrReg(g, r - (CHOOSE b \in DevStr8 : r \in b..(b + 7)))
  ELSE IF \E b \in DevStr32 : r \in b..(b + 31)
    THEN StrReg(g, r - (CHOOSE b \in DevStr32 : r \in b..(b + 31)))
  ELSE IF r \in DevU32 THEN Pick(WordSamples, r + g)
  ELSE IF (r - 1) \in DevU32 THEN g
  ELSE IF r \in DevFloat THEN Pick(FloatSamples, (r \div 2) + g)[1]
  ELSE IF (r - 1) \in DevFloat THEN Pick(FloatSamples, ((r - 1) \div 2) + g)[2]
  ELSE 0

Reg(g, r) == IF r \in VaryingRegs THEN RegOf(g, r) ELSE RegOf(1, r)

read_holding_registers(g, adr, n) == [i \in 1..n |-> Reg(g, adr + i - 1)]

\* ------------------------------------------------------------- decoders
\* BinaryPayloadDecoder.fromRegisters(..., byteorder=Endian.Big): each
\* register contributes its high byte, then its low byte.
RECURSIVE PayloadBytes(_)
PayloadBytes(regs) ==
  IF regs = <<>> THEN <<>>
  ELSE <<Head(regs) \div 256, Head(regs) % 256>> \o PayloadBytes(Tail(regs))

\* bytes(filter(None, b)): every zero byte is dropped, wherever it stands
RECURSIVE FilterNone(_)
FilterNone(b) ==
  IF b = <<>> THEN <<>>
  ELSE IF Head(b) = 0 THEN FilterNone(Tail(b))
  ELSE <<Head(b)>> \o FilterNone(Tail(b))

\* decode_string(size): the first size bytes of the payload
decode_string(payload, size) == SubSeq(payload, 1, size)

Str8Decode(regs) == StrVal(FilterNone(decode_string(PayloadBytes(regs), 8)))

Str32Decode(regs) == StrVal(FilterNone(decode_string(PayloadBytes(regs), 32)))

RECURSIVE Pow2(_)
Pow2(e) == IF e = 0 THEN 1 ELSE 2 * Pow2(e - 1)

\* variant of RoundHalfEven that cuts the digits off
RoundHalfEven_Floor(N, D) == N \div D

\* round-half-to-even of the exact quotient N / D (D > 0), floor division
RoundHalfEven(N, D) ==
  LET q == N \div D
      r == N % D
  IN  IF 2 * r > D THEN q + 1
      ELSE IF 2 * r < D THEN q
      ELSE IF q % 2 = 0 THEN q ELSE q + 1

\* round(decode_32bit_float(), 2) with wordorder=Endian.Little: regs[1] is
\* the low word, regs[2] the high word of an IEEE-754 single.  The result
\* is held as hundredths.  A normal number is sig * 2^(e-150) with
\* sig = 2^23 + mantissa, so 100 * value = 25 * sig * 2^(e-148).
\* Exponents above 150 exceed 32-bit integers in hundredths and are
\* reported like a non-finite value; the device images stay below.
FloatDecode(regs) ==
  LET hi   == regs[2]
      lo   == regs[1]
      sign == hi \div 32768
      e    == (hi % 32768) \div 128
      sig  == 8388608 + (hi % 128) * 65536 + lo
      mag  == IF e < 118 THEN 0
              ELSE IF e < 148 THEN RoundHalfEven(25 * sig, Pow2(148 - e))
              ELSE 25 * sig * Pow2(e - 148)
  IN  IF e > 150 THEN NonFinite
      ELSE FloatVal(IF sign = 1 THEN 0 - mag ELSE mag)

U16Decode(regs) == IntVal(regs[1])

\* variant of U32Decode that takes the first register as the high word
U32Decode_HighWordFirst(regs) ==
  LET b == PayloadBytes(<<regs[1], regs[2]>>)
  IN  IntVal(((b[1] * 256 + b[2]) * 256 + b[3]) * 256 + b[4])

\* decode_32bit_uint() with wordorder=Endian.Little: the decoder swaps the
\* two registers and reads the four bytes as one big-endian number
U32Decode(regs) ==
  LET b == PayloadBytes(<<regs[2], regs[1]>>)
  IN  IntVal(((b[1] * 256 + b[2]) * 256 + b[3]) * 256 + b[4])

S16Decode(regs) == IntVal(IF regs[1] < 32768 THEN regs[1] ELSE regs[1] - 65536)

\* number of registers each routine asks for
Count(fn) ==
  CASE fn = "ReadStr8"   -> 8
    [] fn = "ReadStr32"  -> 32
    [] fn = "ReadFloat"  -> 2
    [] fn = "ReadU16_1"  -> 1
    [] fn = "ReadU16_2"  -> 2
    [] fn = "ReadU32"    -> 2
    [] fn = "ReadU32new" -> 2
    [] fn = "ReadS16"    -> 1
    [] fn = "ReadU8"     -> 1

\* the value each routine returns for the registers it received
Decode(fn, regs) ==
  CASE fn = "ReadStr8"   -> Str8Decode(regs)
    [] fn = "ReadStr32"  -> Str32Decode(regs)
    [] fn = "ReadFloat"  -> FloatDecode(regs)
    [] fn = "ReadU16_1"  -> U16Decode(regs)
    [] fn = "ReadU16_2"  -> U16Decode(regs)
    [] fn = "ReadU32"    -> U32Decode(regs)
    [] fn = "ReadU32new" -> U32Decode(regs)
    [] fn = "ReadS16"    -> S16Decode(regs)
    [] fn = "ReadU8"     -> U16Decode(regs)

\* ------------------------------------------------------------------ state
VARIABLES
  Adr,             \* NNN -> self.AdrNNN[3], the value field of the list self.AdrNNN
  KostalRegister,  \* self.KostalRegister: sequence of references NNN
  client,          \* self.client: "none", "open", "down" (connect failed), "closed"
  pc,              \* position of run(): "idle", "reading", "build", "close", "clamp"
  idx,             \* index in ReadPlan of the next read statement
  dev,             \* register image the device presents during the pass
  passes,          \* number of run() calls started
  lastRun,         \* "none", "running", "ok" (returned), "failed" (raised to the caller)
  reads,           \* requests issued to the transport by the current pass
  failedAt,        \* index in ReadPlan of the read that raised in this pass, 0 if none
  regAtStart,      \* KostalRegister as it was when the current pass started
  seenRegister,    \* KostalRegister as the last successful run() returned it
  seenVal,         \* NNN -> value, as the last successful run() returned them
  calc,            \* __main__ calculations since the last run: "none", "ok", "KeyError"
  KostalVal,       \* __main__: name -> value
  derived,         \* __main__: the four derived quantities, in tenths
  resp,            \* registers the device answers to a routine called on its own
  ret,             \* routine called on its own: [fn, adr, val] it returned
  wire             \* requests that routine call handed to self.client

vars == <<Adr, KostalRegister, client, pc, idx, dev, passes, lastRun, reads,
          failedAt, regAtStart, seenRegister, seenVal, calc, KostalVal, derived,
          resp, ret, wire>>

runVars == <<Adr, KostalRegister, client, pc, idx, dev, passes, lastRun, reads,
             failedAt, regAtStart, seenRegister, seenVal>>

mainVars == <<calc, KostalVal, derived>>

callVars == <<resp, ret, wire>>

\* no routine has been called on its own
NoReturn == [fn |-> "none", adr |-> 0, arg |-> IntVal(0), val |-> IntVal(0)]

\* the list self.AdrNNN = [address, name, type, value]
AdrList(a) == <<Descriptor(a).adr, Descriptor(a).name, Descriptor(a).type, Adr[a]>>

\* value field of the list self.AdrNNN, i.e. AdrNNN[3]
Val(a) == Adr[a]

\* the four names assigned by the calculations of __main__
DerivedNames ==
  {"LeftSidePowerGeneration", "BatteryCharge", "TotalHomeconsumption", "PowertoGrid"}

\* none of them assigned yet: bound is the set of the names that are
NoDerived == [LeftSidePowerGeneration |-> 0, BatteryCharge |-> 0,
              TotalHomeconsumption |-> 0, PowertoGrid |-> 0, bound |-> {}]

EmptyMap == [n \in {} |-> IntVal(0)]

Init ==
  /\ Adr = [a \in CatalogAdrs |-> IntVal(0)]
  /\ KostalRegister = <<>>
  /\ client = "none"
  /\ pc = "idle"
  /\ idx = 0
  /\ dev = 0
  /\ passes = 0
  /\ lastRun = "none"
  /\ reads = <<>>
  /\ failedAt = 0
  /\ regAtStart = <<>>
  /\ seenRegister = <<>>
  /\ seenVal = [a \in CatalogAdrs |-> IntVal(0)]
  /\ calc = "none"
  /\ KostalVal = EmptyMap
  /\ derived = NoDerived
  /\ resp = <<>>
  /\ ret = NoReturn
  /\ wire = <<>>

\* ------------------------------------------------------------------ run()
\* variant of RunConnect that takes a failed pass up where it was left
RunConnect_Resume ==
  /\ pc = "idle"
  /\ passes < MaxPasses
  /\ \E g \in 1..NumImages, up \in BOOLEAN :
       /\ dev' = g
       /\ client' = IF up THEN "open" ELSE "down"
  /\ pc' = "reading"
  /\ idx' = IF lastRun = "failed" THEN failedAt ELSE 1
  /\ passes' = passes + 1
  /\ lastRun' = "running"
  /\ reads' = <<>>
  /\ failedAt' = 0
  /\ regAtStart' = KostalRegister
  /\ calc' = "none"
  /\ UNCHANGED <<Adr, KostalRegister, seenRegister, seenVal, KostalVal, derived>>
  /\ UNCHANGED callVars

\* self.client = ModbusTcpClient(...); self.client.connect()
\* connect() reports failure by its return value, which run() ignores.
RunConnect ==
  /\ pc = "idle"
  /\ passes < MaxPasses
  /\ \E g \in 1..NumImages, up \in BOOLEAN :
       /\ dev' = g
       /\ client' = IF up THEN "open" ELSE "down"
  /\ pc' = "reading"
  /\ idx' = 1
  /\ passes' = passes + 1
  /\ lastRun' = "running"
  /\ reads' = <<>>
  /\ failedAt' = 0
  /\ regAtStart' = KostalRegister
  /\ calc' = "none"
  /\ UNCHANGED <<Adr, KostalRegister, seenRegister, seenVal, KostalVal, derived>>
  /\ UNCHANGED callVars

Request(p) == [adr |-> Descriptor(p.src).adr, count |-> Count(p.fn), fn |-> p.fn]

\* variant of ReadOk that applies the clamp as soon as register 575 is read
ReadOk_ClampsAtOnce ==
  /\ pc = "reading"
  /\ client = "open"
  /\ LET p    == ReadPlan[idx]
         regs == read_holding_registers(dev, Descriptor(p.src).adr, Count(p.fn))
         v    == Decode(p.fn, regs)
     IN  /\ Adr' = [Adr EXCEPT ![p.dst] = IF p.dst = 575 /\ v.n > 32766
                                            THEN IntVal(0) ELSE v]
         /\ reads' = Append(reads, Request(p))
  /\ IF idx = Len(ReadPlan)
       THEN pc' = "build" /\ idx' = idx
       ELSE pc' = "reading" /\ idx' = idx + 1
  /\ UNCHANGED <<KostalRegister, client, dev, passes, lastRun, failedAt,
                 regAtStart, seenRegister, seenVal>>
  /\ UNCHANGED mainVars
  /\ UNCHANGED callVars

\* variant of ReadOk that drops the value of the first read of a pass
ReadOk_DropsFirstValue ==
  /\ pc = "reading"
  /\ client = "open"
  /\ LET p    == ReadPlan[idx]
         regs == read_holding_registers(dev, Descriptor(p.src).adr, Count(p.fn))
     IN  /\ Adr' = IF idx = 1 THEN Adr ELSE [Adr EXCEPT ![p.dst] = Decode(p.fn, regs)]
         /\ reads' = Append(reads, Request(p))
  /\ IF idx = Len(ReadPlan)
       THEN pc' = "build" /\ idx' = idx
       ELSE pc' = "reading" /\ idx' = idx + 1
  /\ UNCHANGED <<KostalRegister, client, dev, passes, lastRun, failedAt,
                 regAtStart, seenRegister, seenVal>>
  /\ UNCHANGED mainVars
  /\ UNCHANGED callVars

\* one statement self.AdrDST[3] = self.FN(self.AdrSRC[0]) that succeeds
ReadOk ==
  /\ pc = "reading"
  /\ client = "open"
  /\ LET p    == ReadPlan[idx]
         regs == read_holding_registers(dev, Descriptor(p.src).adr, Count(p.fn))
     IN  /\ Adr' = [Adr EXCEPT ![p.dst] = Decode(p.fn, regs)]
         /\ reads' = Append(reads, Request(p))
  /\ IF idx = Len(ReadPlan)
       THEN pc' = "build" /\ idx' = idx
       ELSE pc' = "reading" /\ idx' = idx + 1
  /\ UNCHANGED <<KostalRegister, client, dev, passes, lastRun, failedAt,
                 regAtStart, seenRegister, seenVal>>
  /\ UNCHANGED mainVars
  /\ UNCHANGED callVars

\* variant of ReadFails in which the error is swallowed and the pass goes on
\* with the next statement (skip-and-continue)
ReadFails_SkipAndContinue ==
  /\ pc = "reading"
  /\ reads' = Append(reads, Request(ReadPlan[idx]))
  /\ failedAt' = idx
  /\ IF idx = Len(ReadPlan)
       THEN pc' = "build" /\ idx' = idx
       ELSE pc' = "reading" /\ idx' = idx + 1
  /\ UNCHANGED <<Adr, KostalRegister, client, dev, passes, lastRun, regAtStart,
                 seenRegister, seenVal>>
  /\ UNCHANGED mainVars
  /\ UNCHANGED callVars

\* the same statement when the routine raises (no connection, timeout,
\* error response): nothing in run() catches it, the class-level try only
\* guards the def statement, so the exception leaves run()
ReadFails ==
  /\ pc = "reading"
  /\ reads' = Append(reads, Request(ReadPlan[idx]))
  /\ failedAt' = idx
  /\ pc' = "idle"
  /\ lastRun' = "failed"
  /\ UNCHANGED <<Adr, KostalRegister, client, idx, dev, passes, regAtStart,
                 seenRegister, seenVal>>
  /\ UNCHANGED mainVars
  /\ UNCHANGED callVars

\* variant of RunBuild without the statement self.KostalRegister = []
RunBuild_NoReset ==
  /\ pc = "build"
  /\ KostalRegister' = KostalRegister \o AppendPlan
  /\ pc' = "close"
  /\ UNCHANGED <<Adr, client, idx, dev, passes, lastRun, reads, failedAt,
                 regAtStart, seenRegister, seenVal>>
  /\ UNCHANGED mainVars
  /\ UNCHANGED callVars

\* self.KostalRegister = [] followed by the appends
RunBuild ==
  /\ pc = "build"
  /\ KostalRegister' = AppendPlan
  /\ pc' = "close"
  /\ UNCHANGED <<Adr, client, idx, dev, passes, lastRun, reads, failedAt,
                 regAtStart, seenRegister, seenVal>>
  /\ UNCHANGED mainVars
  /\ UNCHANGED callVars

\* self.client.close()
RunClose ==
  /\ pc = "close"
  /\ client' = "closed"
  /\ pc' = "clamp"
  /\ UNCHANGED <<Adr, KostalRegister, idx, dev, passes, lastRun, reads, failedAt,
                 regAtStart, seenRegister, seenVal>>
  /\ UNCHANGED mainVars
  /\ UNCHANGED callVars

\* variant of Clamp575 with the threshold off by one
Clamp575_Above32767(v) == IF v.n > 32767 THEN IntVal(0) ELSE v

\* if self.Adr575[3] > 32766: self.Adr575[3] = 0
Clamp575(v) == IF v.n > 32766 THEN IntVal(0) ELSE v

\* the clamp, then run() returns
RunClamp ==
  /\ pc = "clamp"
  /\ Adr' = [Adr EXCEPT ![575] = Clamp575(Adr[575])]
  /\ pc' = "idle"
  /\ lastRun' = "ok"
  /\ seenRegister' = KostalRegister
  /\ seenVal' = Adr'
  /\ UNCHANGED <<KostalRegister, client, idx, dev, passes, reads, failedAt, regAtStart>>
  /\ UNCHANGED mainVars
  /\ UNCHANGED callVars

\* ------------------------------------------------------------ __main__
\* variant of LastEntry that files the entries under elements[2], the type
LastEntry_ByType(reg) ==
  [n \in {Descriptor(reg[i]).type : i \in 1..Len(reg)} |->
     LET hits == {i \in 1..Len(reg) : Descriptor(reg[i]).type = n}
     IN  CHOOSE i \in hits : \A j \in hits : j <= i]
    @@ <<>>

\* KostalVal = {}
\* for elements in Kostalquery.KostalRegister:
\*     KostalVal.update({elements[1]: elements[3]})
\* Every name met is a key; a later entry with the same name overwrites an
\* earlier one, so a key holds the value of the last entry with its name.
\* LastEntry(reg) maps each name to the index of that last entry.
LastEntry(reg) ==
  [n \in {Descriptor(reg[i]).name : i \in 1..Len(reg)} |->
     LET hits == {i \in 1..Len(reg) : Descriptor(reg[i]).name = n}
     IN  CHOOSE i \in hits : \A j \in hits : j <= i]
    @@ <<>>

\* the same for the only non-empty list run() ever builds (tabulated once)
LastAppended == LastEntry(AppendPlan)

KostalValOf(reg) ==
  LET last == IF reg = AppendPlan THEN LastAppended ELSE LastEntry(reg)
  IN  [n \in DOMAIN last |-> Adr[reg[last[n]]]]

\* a numeric value in hundredths
Num(v) == IF v.k = "i" THEN 100 * v.n ELSE v.n

\* variant of Round1 that cuts the digits off instead of rounding
Round1_Truncate(N, D) == {N \div D}

\* round(x, 1) of the exact quotient N / D, in tenths.  Python rounds the
\* binary double, which at an exact decimal tie may lie on either side, so
\* a tie yields both neighbours.
Round1(N, D) ==
  LET q == N \div D
      r == N % D
  IN  IF 2 * r > D THEN {q + 1}
      ELSE IF 2 * r < D THEN {q}
      ELSE {q, q + 1}

NamesLeftSide == {"Power DC1", "Power DC2"}

NamesBattery ==
  {"Battery voltage", "Actual battery charge -minus or discharge -plus current"}

NamesHome ==
  {"Home own consumption from battery", "Home own consumption from grid",
   "Home own consumption from PV"}

NamesGrid == {"Inverter Generation Power (actual)"}

\* what KostalVal[n] raises when n is no key
KeyError == [k |-> "KeyError", n |-> 0, s |-> <<>>]

\* variant of Get that answers 0 for a missing key, like KostalVal.get(n, 0)
Get_DefaultZero(kv, n) == IF n \in DOMAIN kv THEN kv[n] ELSE IntVal(0)

\* the subscription KostalVal[n]
Get(kv, n) == IF n \in DOMAIN kv THEN kv[n] ELSE KeyError

\* the assignment NAME = round(..., 1) has been executed with result v
Bind(d, name, v) == [d EXCEPT ![name] = v, !.bound = @ \cup {name}]

\* an exception left the calculations, or their last statement was executed
Raised(d) == [calc |-> "KeyError", derived |-> d]

Finished(d) == [calc |-> "ok", derived |-> d]

\* PowertoGrid = round(KostalVal['Inverter Generation Power (actual)']
\*                     - TotalHomeconsumption, 1)
PowertoGrid(kv, d) ==
  LET i == Get(kv, "Inverter Generation Power (actual)")
  IN  IF i = KeyError THEN {Raised(d)}
      ELSE {Finished(Bind(d, "PowertoGrid", g)) :
              g \in Round1(Num(i) - 10 * d.TotalHomeconsumption, 10)}

\* TotalHomeconsumption = round(battery + grid + PV, 1), then PowertoGrid
TotalHomeconsumption(kv, d) ==
  LET b == Get(kv, "Home own consumption from battery")
      g == Get(kv, "Home own consumption from grid")
      p == Get(kv, "Home own consumption from PV")
  IN  IF KeyError \in {b, g, p} THEN {Raised(d)}
      ELSE UNION {PowertoGrid(kv, Bind(d, "TotalHomeconsumption", t)) :
                    t \in Round1(Num(b) + Num(g) + Num(p), 10)}

\* BatteryCharge = round(voltage * current, 1), then the statements after it
BatteryCharge(kv, d) ==
  LET u == Get(kv, "Battery voltage")
      c == Get(kv, "Actual battery charge -minus or discharge -plus current")
  IN  IF KeyError \in {u, c} THEN {Raised(d)}
      ELSE UNION {TotalHomeconsumption(kv, Bind(d, "BatteryCharge", b)) :
                    b \in Round1(Num(u) * Num(c), 1000)}

\* LeftSidePowerGeneration = round(DC1 + DC2, 1), then the statements after
\* it: every way the calculations can end for the map kv, starting with the
\* names bound as in d
Calculations(kv, d) ==
  LET a == Get(kv, "Power DC1")
      b == Get(kv, "Power DC2")
  IN  IF KeyError \in {a, b} THEN {Raised(d)}
      ELSE UNION {BatteryCharge(kv, Bind(d, "LeftSidePowerGeneration", l)) :
                    l \in Round1(Num(a) + Num(b), 10)}

\* the calculations executed on the map kv
Calculate(kv) ==
  \E r \in Calculations(kv, derived) :
    /\ calc' = r.calc
    /\ derived' = r.derived

\* variant of MainCalc that files the derived quantities in KostalVal as well
MainCalc_StoresDerived ==
  /\ pc = "idle"
  /\ lastRun \in {"ok", "failed"}
  /\ calc = "none"
  /\ \E kv \in {KostalValOf(KostalRegister)} :
       /\ Calculate(kv)
       /\ KostalVal' = [m \in derived'.bound |-> FloatVal(10 * derived'[m])] @@ kv
  /\ UNCHANGED runVars
  /\ UNCHANGED callVars

\* The statements after the try/except around run(): they are executed
\* whether run() returned or raised.  A missing key raises KeyError, which
\* nothing catches.
MainCalc ==
  /\ pc = "idle"
  /\ lastRun \in {"ok", "failed"}
  /\ calc = "none"
  /\ \E kv \in {KostalValOf(KostalRegister)} :
       /\ KostalVal' = kv
       /\ Calculate(kv)
  /\ UNCHANGED runVars
  /\ UNCHANGED callVars

Next ==
  \/ RunConnect
  \/ ReadOk
  \/ ReadFails
  \/ RunBuild
  \/ RunClose
  \/ RunClamp
  \/ MainCalc

Spec == Init /\ [][Next]_vars

\* ------------------------------------ the calculations as a function
\* The calculations of __main__ read nothing but the map KostalVal.  Here
\* they are applied to maps that hold any part of the eight names they look
\* up, with values as the decode routines return them.
CalcNameSeq ==
  << "Power DC1", "Power DC2", "Battery voltage",
     "Actual battery charge -minus or discharge -plus current",
     "Home own consumption from battery", "Home own consumption from grid",
     "Home own consumption from PV" >>

CalcNames == NamesLeftSide \cup NamesBattery \cup NamesHome \cup NamesGrid

\* the map with the keys S: the float registers hold the samples starting
\* at sample v, register 575 holds the word w
CalcMap(S, v, w) ==
  [n \in S |->
     IF n \in NamesGrid THEN Clamp575(S16Decode(<<w>>))
     ELSE FloatDecode(Pick(FloatSamples,
            (CHOOSE i \in 1..Len(CalcNameSeq) : CalcNameSeq[i] = n) - 1 + v))]

InitCalc ==
  /\ \E S \in SUBSET CalcNames, v \in 1..Len(FloatSamples),
        i \in 1..Len(Raw575Samples) :
       KostalVal = CalcMap(S, v - 1, Raw575Samples[i])
  /\ Adr = [a \in CatalogAdrs |-> IntVal(0)]
  /\ KostalRegister = <<>>
  /\ client = "none"
  /\ pc = "idle"
  /\ idx = 0
  /\ dev = 0
  /\ passes = 0
  /\ lastRun = "none"
  /\ reads = <<>>
  /\ failedAt = 0
  /\ regAtStart = <<>>
  /\ seenRegister = <<>>
  /\ seenVal = [a \in CatalogAdrs |-> IntVal(0)]
  /\ calc = "none"
  /\ derived = NoDerived
  /\ resp = <<>>
  /\ ret = NoReturn
  /\ wire = <<>>

\* lines 1252-1257 executed on the map at hand
CalcOnMap ==
  /\ calc = "none"
  /\ Calculate(KostalVal)
  /\ UNCHANGED KostalVal
  /\ UNCHANGED runVars
  /\ UNCHANGED callVars

NextCalc == CalcOnMap

SpecCalc == InitCalc /\ [][NextCalc]_vars

\* ------------------------------------------- the routines on their own
\* The Read* routines and WriteS16 are public methods: a caller can invoke
\* them on the object directly.  They use self.client, which only run()
\* creates, so they are called on a fresh object (no client: AttributeError)
\* or on an object whose run() was left by its first read.

\* a text of L bytes "ABC..." with a NUL in place of byte z (none if z = 0),
\* padded with NUL to total bytes
StrBytes(L, z, total) ==
  [i \in 1..total |-> IF i <= L /\ i # z THEN 65 + ((i - 1) % 26) ELSE 0]

\* the registers that carry the bytes b, high byte first
WordsOf(b) == [j \in 1..(Len(b) \div 2) |-> 256 * b[2 * j - 1] + b[2 * j]]

LowWords == {0, 1, 65535, 32768, 39322}

\* high words stay below 2^15 so that the 32-bit value fits the integers
HighWords == {0, 1, 7, 17137, 16960, 32767}

\* what the device may answer to one request: 1, 2, 8 or 32 registers
Responses ==
  {<<WordSamples[i]>> : i \in 1..Len(WordSamples)}
    \cup {<<Raw575Samples[i]>> : i \in 1..Len(Raw575Samples)}
    \cup {<<lo, hi>> : lo \in LowWords, hi \in HighWords}
    \cup {WordsOf(StrBytes(L, z, 16)) : L \in 0..16, z \in 0..16}
    \cup {WordsOf(StrBytes(L, z, 64)) : L \in 0..64, z \in {0, 2, 31, 34}}

\* addresses and values a caller passes
CallAdrs == {6, 1034}

WriteValues == {IntVal(100), IntVal(0), FloatVal(12050), FloatVal(-500)}

\* registers the interface description quoted in the file header marks as
\* writable (RW or WO)
DocumentedWritable ==
  {1024, 1028, 1030, 1032, 1034, 1036, 1038, 1040, 1042, 1044, 1080}

\* outcomes of a routine other than a decoded value
AttributeError == [k |-> "AttributeError", n |-> 0, s |-> <<>>]

TransportError == [k |-> "TransportError", n |-> 0, s |-> <<>>]

WriteResponse == [k |-> "response", n |-> 0, s |-> <<>>]

\* the calls on self.client
ReadRequest(adr, count) ==
  [op |-> "read", adr |-> adr, count |-> count, values |-> IntVal(0)]

WriteRequest(adr, value) ==
  [op |-> "write", adr |-> adr, count |-> 0, values |-> value]

InitRoutines ==
  /\ resp \in Responses
  /\ \/ client = "none" /\ pc = "idle" /\ idx = 0 /\ dev = 0 /\ passes = 0
        /\ lastRun = "none" /\ reads = <<>> /\ failedAt = 0
     \/ client \in {"open", "down"} /\ pc = "idle" /\ idx = 1 /\ dev = 1
        /\ passes = 1 /\ lastRun = "failed"
        /\ reads = <<Request(ReadPlan[1])>> /\ failedAt = 1
  /\ Adr = [a \in CatalogAdrs |-> IntVal(0)]
  /\ KostalRegister = <<>>
  /\ regAtStart = <<>>
  /\ seenRegister = <<>>
  /\ seenVal = [a \in CatalogAdrs |-> IntVal(0)]
  /\ calc = "none"
  /\ KostalVal = EmptyMap
  /\ derived = NoDerived
  /\ ret = NoReturn
  /\ wire = <<>>

\* r1 = self.client.read_holding_registers(myadr_dec, n, unit=71), then the
\* decoding of r1.registers: without a client the attribute lookup raises;
\* otherwise the request goes out and the routine returns the decoded
\* answer, or is left by the error of the request
ReadCall(fn) ==
  /\ pc = "idle"
  /\ \E a \in CallAdrs :
       \/ /\ client = "none"
          /\ wire' = <<>>
          /\ ret' = [fn |-> fn, adr |-> a, arg |-> IntVal(0), val |-> AttributeError]
       \/ /\ client # "none"
          /\ wire' = <<ReadRequest(a, Count(fn))>>
          /\ \/ /\ Len(resp) = Count(fn)
                /\ ret' = [fn |-> fn, adr |-> a, arg |-> IntVal(0),
                           val |-> Decode(fn, resp)]
             \/ ret' = [fn |-> fn, adr |-> a, arg |-> IntVal(0),
                        val |-> TransportError]
  /\ UNCHANGED resp
  /\ UNCHANGED runVars
  /\ UNCHANGED mainVars

ReadStr8 == ReadCall("ReadStr8")

ReadStr32 == ReadCall("ReadStr32")

ReadFloat == ReadCall("ReadFloat")

ReadU16_1 == ReadCall("ReadU16_1")

ReadU16_2 == ReadCall("ReadU16_2")

ReadU32 == ReadCall("ReadU32")

ReadU32new == ReadCall("ReadU32new")

ReadS16 == ReadCall("ReadS16")

ReadU8 == ReadCall("ReadU8")

\* r1 = self.client.write_registers(myadr_dec, value, unit=71); return(r1)
\* The one call on the client is the write, with the arguments as passed.
WriteS16 ==
  /\ pc = "idle"
  /\ \E a \in CallAdrs, value \in WriteValues :
       \/ /\ client = "none"
          /\ wire' = <<>>
          /\ ret' = [fn |-> "WriteS16", adr |-> a, arg |-> value, val |-> AttributeError]
       \/ /\ client # "none"
          /\ wire' = <<WriteRequest(a, value)>>
          /\ \E r \in {WriteResponse, TransportError} :
               ret' = [fn |-> "WriteS16", adr |-> a, arg |-> value, val |-> r]
  /\ UNCHANGED resp
  /\ UNCHANGED runVars
  /\ UNCHANGED mainVars

NextRoutines ==
  \/ ReadStr8
  \/ ReadStr32
  \/ ReadFloat
  \/ ReadU16_1
  \/ ReadU16_2
  \/ ReadU32
  \/ ReadU32new
  \/ ReadS16
  \/ ReadU8
  \/ WriteS16

SpecRoutines == InitRoutines /\ [][NextRoutines]_vars

\* ------------------------------------------------ ReadFloat on its own
\* <<low word, high word>> the device may answer to ReadFloat: the singles
\* nearest to 0, 0.01, 0.1, 1.0, 99.99, 1234.56, -1234.56, -0.01, 65535.99,
\* 131071.99, 131072.01, 131072.03, -131072.01, 1234567.89, 100000.07,
\* 0.001, 0.005, 0.015, the ties 0.375 and 0.625, 8388607.5 and 16777215.0,
\* the samples of the device images, and other bit patterns
FloatWords ==
  { <<0, 0>>, <<55050, 15395>>, <<52429, 15820>>, <<0, 16256>>, <<64225, 17095>>,
    <<20972, 17562>>, <<20972, 50330>>, <<55050, 48163>>, <<65533, 18303>>,
    <<65535, 18431>>, <<1, 18432>>, <<2, 18432>>, <<1, 51200>>, <<46143, 18838>>,
    <<20489, 18371>>, <<4719, 14979>>, <<55050, 15267>>, <<49807, 15477>>,
    <<0, 16064>>, <<0, 16160>>, <<65535, 19199>>, <<65535, 19327>> }
    \cup {FloatSamples[i] : i \in 1..Len(FloatSamples)}
    \cup {<<lo, hi>> : lo \in LowWords, hi \in {15872, 16427, 17137, 18432, 49312}}

InitFloat ==
  /\ resp \in FloatWords
  /\ \/ client = "none" /\ pc = "idle" /\ idx = 0 /\ dev = 0 /\ passes = 0
        /\ lastRun = "none" /\ reads = <<>> /\ failedAt = 0
     \/ client \in {"open", "down"} /\ pc = "idle" /\ idx = 1 /\ dev = 1
        /\ passes = 1 /\ lastRun = "failed"
        /\ reads = <<Request(ReadPlan[1])>> /\ failedAt = 1
  /\ Adr = [a \in CatalogAdrs |-> IntVal(0)]
  /\ KostalRegister = <<>>
  /\ regAtStart = <<>>
  /\ seenRegister = <<>>
  /\ seenVal = [a \in CatalogAdrs |-> IntVal(0)]
  /\ calc = "none"
  /\ KostalVal = EmptyMap
  /\ derived = NoDerived
  /\ ret = NoReturn
  /\ wire = <<>>

SpecFloat == InitFloat /\ [][ReadFloat]_vars

\* the names of the map each derived quantity is computed from
\* (PowertoGrid uses TotalHomeconsumption)
NamesReferenced(m) ==
  CASE m = "LeftSidePowerGeneration" -> NamesLeftSide
    [] m = "BatteryCharge"           -> NamesBattery
    [] m = "TotalHomeconsumption"    -> NamesHome
    [] m = "PowertoGrid"             -> NamesGrid \cup NamesHome

\* ------------------------------------------------- declared encodings
\* registers implied by the type string a descriptor declares
Span(type) ==
  CASE type = "Strg8"  -> 8
    [] type = "Strg32" -> 32
    [] type = "Float"  -> 2
    [] type = "R32"    -> 2
    [] type = "U32"    -> 2
    [] type = "U16"    -> 1
    [] type = "S16"    -> 1
    [] type = "U8"     -> 1

\* the routines written for the type string a descriptor declares
RoutinesOf(type) ==
  CASE type = "Strg8"  -> {"ReadStr8"}
    [] type = "Strg32" -> {"ReadStr32"}
    [] type = "Float"  -> {"ReadFloat"}
    [] type = "R32"    -> {"ReadFloat"}
    [] type = "U32"    -> {"ReadU32", "ReadU32new"}
    [] type = "U16"    -> {"ReadU16_1"}
    [] type = "S16"    -> {"ReadS16"}
    [] type = "U8"     -> {"ReadU8"}

\* ------------------------------------------------------------- claims

\* C1: when a pass fails after an earlier pass succeeded, KostalRegister and
\* the value of every entry in it are exactly what the earlier pass returned.
C1_FailedPassKeepsSnapshot ==
  (lastRun = "failed" /\ seenRegister # <<>>) =>
     /\ KostalRegister = seenRegister
     /\ \A i \in 1..Len(KostalRegister) :
          Val(KostalRegister[i]) = seenVal[KostalRegister[i]]

\* C2: once a read of a pass has failed, run() has ended with the error
\* delivered to its caller, the failing request is the last one the pass
\* issued, and KostalRegister is what it was when the pass started (empty
\* when no pass ever succeeded).
C2_FailedReadAbortsPass ==
  failedAt # 0 =>
     /\ pc = "idle"
     /\ lastRun = "failed"
     /\ Len(reads) = failedAt
     /\ KostalRegister = regAtStart
     /\ (seenRegister = <<>> => KostalRegister = <<>>)

\* a first pass that fails after some reads succeeded: nothing is exposed
C2_Witness ==
  /\ lastRun = "failed"
  /\ passes = 1
  /\ failedAt > 1
  /\ KostalRegister = <<>>

\* C3: after a successful run() every catalog descriptor appears exactly once
\* in KostalRegister and the name-keyed map holds its value under its name.
C3_EveryDescriptorOnce ==
  lastRun = "ok" =>
    \A m \in {KostalValOf(KostalRegister)} :
      \A a \in DOMAIN Adr :
        /\ Cardinality({i \in 1..Len(KostalRegister) : KostalRegister[i] = a}) = 1
        /\ AdrList(a)[2] \in DOMAIN m
        /\ m[AdrList(a)[2]] = Val(a)

\* C4: whenever no run() is in progress, the value the snapshot holds for
\* register 575 is at most 32766.
C4_Reg575AtMost32766 ==
  (pc = "idle" /\ \E i \in 1..Len(KostalRegister) : KostalRegister[i] = 575) =>
     Val(575).n <= 32766

\* C5: after a successful pass the value of register 575 is 0 when the signed
\* value d of the raw word is >= 32767 and d otherwise (negative included).
C5_Reg575Reported ==
  lastRun = "ok" =>
    LET w == Reg(dev, 575)
        d == IF w < 32768 THEN w ELSE w - 65536
    IN  Val(575) = IntVal(IF d >= 32767 THEN 0 ELSE d)

\* a successful pass in which the device answered raw 32767 for register 575
C5_Witness ==
  /\ lastRun = "ok"
  /\ Reg(dev, 575) = 32767
  /\ Val(575) = IntVal(0)

\* C6: a successful run() has issued exactly one read request for the
\* address of every catalog descriptor.
C6_OneReadPerDescriptor ==
  lastRun = "ok" =>
    \A a \in DOMAIN Adr :
      Cardinality({i \in 1..Len(reads) : reads[i].adr = AdrList(a)[1]}) = 1

\* C7: reads are issued, and snapshot entries are ordered, strictly ascending
\* by register address, and the order is the same in every pass.
C7_AscendingOrder ==
  /\ \A i \in 1..(Len(reads) - 1) : reads[i].adr < reads[i + 1].adr
  /\ \A i \in 1..(Len(KostalRegister) - 1) :
       AdrList(KostalRegister[i])[1] < AdrList(KostalRegister[i + 1])[1]
  /\ (lastRun = "ok" /\ regAtStart # <<>>) => KostalRegister = regAtStart

\* C8: every read asks for the number of registers implied by the encoding
\* the descriptor declares and uses a routine written for that encoding.
C8_ReadMatchesDeclaredType ==
  \A i \in 1..Len(reads) :
    /\ reads[i].count = Span(AdrList(reads[i].adr)[3])
    /\ reads[i].fn \in RoutinesOf(AdrList(reads[i].adr)[3])

\* C9: when run() has ended, returned or raised, no session is left open.
C9_NoSessionLeftOpen ==
  pc = "idle" => client # "open"

\* C10: the derived-metric computation is attempted only after a pass that
\* completed successfully.
C10_CalcOnlyAfterSuccess ==
  calc # "none" => lastRun = "ok"

\* C11: when the calculations run on a map that lacks a name they look up,
\* they end in an error (KeyError) and the derived quantity that needs the
\* missing name is not assigned: no default stands in for the missing entry.
\* Without a missing name they end without error.
C11_MissingNameNoValue ==
  calc # "none" =>
    /\ (calc = "KeyError") <=> ~(CalcNames \subseteq DOMAIN KostalVal)
    /\ \A m \in DerivedNames :
         ~(NamesReferenced(m) \subseteq DOMAIN KostalVal) => m \notin derived.bound

\* the map has the two panel powers but no battery voltage: the first
\* quantity is assigned, the calculations end in KeyError at the second
C11_Witness ==
  /\ calc = "KeyError"
  /\ NamesLeftSide \subseteq DOMAIN KostalVal
  /\ "Battery voltage" \notin DOMAIN KostalVal
  /\ derived.bound = {"LeftSidePowerGeneration"}

\* C12: with the values taken as decimals (hundredths), each derived
\* quantity is its formula rounded to one decimal: DC1 + DC2, voltage *
\* current, battery + grid + PV, inverter power - TotalHomeconsumption;
\* 120.5 and 80.3 give 200.8, 48.0 and -5.0 give -240.0.
C12_DerivedFormulas ==
  calc = "ok" =>
    LET v(n) == IF KostalVal[n].k = "i" THEN 100 * KostalVal[n].n ELSE KostalVal[n].n
        \* t tenths is a decimal nearest to N / (10 * D)
        near(t, N, D) == 2 * (D * t - N) <= D /\ 2 * (N - D * t) <= D
        dc1  == v("Power DC1")
        dc2  == v("Power DC2")
        volt == v("Battery voltage")
        cur  == v("Actual battery charge -minus or discharge -plus current")
    IN  /\ derived.bound = DerivedNames
        /\ near(derived.LeftSidePowerGeneration, dc1 + dc2, 10)
        /\ near(derived.BatteryCharge, volt * cur, 1000)
        /\ near(derived.TotalHomeconsumption,
                v("Home own consumption from battery")
                + v("Home own consumption from grid")
                + v("Home own consumption from PV"), 10)
        /\ near(derived.PowertoGrid,
                v("Inverter Generation Power (actual)")
                - 10 * derived.TotalHomeconsumption, 10)
        /\ (dc1 = 12050 /\ dc2 = 8030) => derived.LeftSidePowerGeneration = 2008
        /\ (volt = 4800 /\ cur = -500) => derived.BatteryCharge = -2400

\* the fixture values 120.5, 80.3, 48.0 and -5.0 have been computed on
C12_Witness ==
  /\ calc = "ok"
  /\ KostalVal["Power DC1"] = FloatVal(12050)
  /\ KostalVal["Power DC2"] = FloatVal(8030)
  /\ KostalVal["Battery voltage"] = FloatVal(4800)
  /\ KostalVal["Actual battery charge -minus or discharge -plus current"] = FloatVal(-500)
  /\ derived.LeftSidePowerGeneration = 2008
  /\ derived.BatteryCharge = -2400

\* C13: computing the derived quantities changes neither KostalRegister nor
\* the value of any entry, the map KostalVal is afterwards exactly the map
\* built from KostalRegister before, and none of the four derived names is
\* a key of it.
C13_CalcLeavesSnapshot ==
  [][(calc = "none" /\ calc' # "none") =>
       /\ KostalRegister' = KostalRegister
       /\ Adr' = Adr
       /\ KostalVal' = KostalValOf(KostalRegister)
       /\ DOMAIN KostalVal' \cap DerivedNames = {}]_vars

\* the four quantities have been computed from a successful snapshot
C13_Witness ==
  /\ calc = "ok"
  /\ lastRun = "ok"
  /\ derived.bound = DerivedNames
  /\ KostalRegister = AppendPlan
  /\ KostalVal = KostalValOf(KostalRegister)

\* C14: once a pass has succeeded, the values of the entries of the
\* KostalRegister it returned stay what they were while a later pass runs.
C14_SnapshotsIndependent ==
  (lastRun = "running" /\ seenRegister # <<>>) =>
    \A i \in 1..Len(seenRegister) : Val(seenRegister[i]) = seenVal[seenRegister[i]]

\* C15: a setpoint write to an address hands the transport exactly two
\* requests, in this order: one read of that address, then one write to
\* that address whose payload is the two words of the Float32 encoding of
\* the value, low word first (the words ReadFloat decodes back to the value).
C15_WriteReadsThenEncodes ==
  (ret.fn = "WriteS16" /\ ret.val # AttributeError) =>
    /\ Len(wire) = 2
    /\ wire[1].op = "read" /\ wire[1].adr = ret.adr
    /\ wire[2].op = "write" /\ wire[2].adr = ret.adr
    /\ wire[2].values.k = "w"
    /\ Len(wire[2].values.s) = 2
    /\ FloatDecode(wire[2].values.s) = FloatVal(Num(ret.arg))

\* C16: a setpoint write to an address outside the writable registers ends
\* in an error and hands no write request to the transport.
C16_WriteRejectsUnwritable ==
  (ret.fn = "WriteS16" /\ ret.adr \notin DocumentedWritable) =>
    /\ ret.val \in {AttributeError, TransportError}
    /\ \A i \in 1..Len(wire) : wire[i].op # "write"

\* C17: when the bytes of the 8 (ReadStr8) or 32 (ReadStr32) registers
\* answered are a NUL-free text of any length, up to all 16 or 64 bytes,
\* followed only by NUL bytes, the routine returns exactly that text.
C17_PaddedTextDecoded ==
  (ret.fn \in {"ReadStr8", "ReadStr32"} /\ ret.val.k = "s") =>
    LET b    == [i \in 1..(2 * Len(resp)) |->
                   IF i % 2 = 1 THEN resp[(i + 1) \div 2] \div 256
                   ELSE resp[i \div 2] % 256]
        nuls == {i \in 1..Len(b) : b[i] = 0}
        text == {i \in 1..Len(b) : \A j \in 1..i : b[j] # 0}
    IN  (\A i \in 1..Len(b) : i \in nuls \/ i \in text) =>
          /\ Len(ret.val.s) = Cardinality(text)
          /\ \A i \in text : ret.val.s[i] = b[i]

\* C18: when the bytes answered hold a NUL that is followed later by a
\* byte other than NUL, the string routines return only the bytes before
\* the first NUL.  (Stated for texts within the first 8 or 32 bytes, the
\* part the routines decode, so that the length of the text plays no part.)
C18_StopsAtFirstNul ==
  (ret.fn \in {"ReadStr8", "ReadStr32"} /\ ret.val.k = "s") =>
    LET b     == [i \in 1..(2 * Len(resp)) |->
                    IF i % 2 = 1 THEN resp[(i + 1) \div 2] \div 256
                    ELSE resp[i \div 2] % 256]
        first == {i \in 1..Len(b) : b[i] = 0 /\ \A j \in 1..(i - 1) : b[j] # 0}
    IN  ((\E i, j \in 1..Len(b) : i < j /\ b[i] = 0 /\ b[j] # 0)
         /\ \A j \in 1..Len(b) : b[j] # 0 => j <= Len(resp))
          => \A z \in first :
               /\ Len(ret.val.s) = z - 1
               /\ \A i \in 1..(z - 1) : ret.val.s[i] = b[i]

\* C19: for the two registers (w0, w1) answered, in that order, ReadU32 and
\* ReadU32new both return w1 * 65536 + w0.
C19_U32LowWordFirst ==
  (ret.fn \in {"ReadU32", "ReadU32new"} /\ ret.val.k = "i") =>
    ret.val.n = resp[2] * 65536 + resp[1]

\* ReadU32new has decoded an answer whose two words differ
C19_Witness ==
  /\ ret.fn = "ReadU32new"
  /\ resp = <<65535, 1>>
  /\ ret.val = IntVal(131071)

\* C20: no two descriptors of the catalog share an address and no two share
\* a name, so that after a successful pass the entry found under a
\* descriptor's name in KostalVal is the entry of its address, and KostalVal
\* has exactly one key for each distinct address in KostalRegister.
C20_CatalogKeysUnique ==
  /\ Cardinality(CatalogAdrs) = Len(Catalog)
  /\ Cardinality(CatalogNames) = Len(Catalog)
  /\ (lastRun = "ok" /\ calc # "none") =>
       /\ Cardinality(DOMAIN KostalVal)
            = Cardinality({AdrList(KostalRegister[i])[1] : i \in 1..Len(KostalRegister)})
       /\ \A i \in 1..Len(KostalRegister) :
            KostalVal[AdrList(KostalRegister[i])[2]] = AdrList(KostalRegister[i])[4]

\* the map has been built from the 117 entries of a successful pass, which
\* name 116 distinct addresses
C20_Witness ==
  /\ lastRun = "ok"
  /\ calc = "ok"
  /\ Len(KostalRegister) = 117
  /\ Cardinality(DOMAIN KostalVal) = 116

\* C21: no call changes a descriptor: every list self.AdrNNN has, whatever
\* has run, the content __init__ gave it (address, name, type and the
\* fourth field), and no list is added or removed.
C21_DescriptorsNeverChange ==
  /\ DOMAIN Adr = CatalogAdrs
  /\ \A a \in CatalogAdrs :
       AdrList(a) = <<Descriptor(a).adr, Descriptor(a).name, Descriptor(a).type, IntVal(0)>>

\* C23: every run() starts over: the first read it issues is the read of
\* register 6, the first entry of the catalog, also when the run() before
\* it was left by a failed read; and when it returns, every entry of
\* KostalRegister has been read during that same run().
C23_PassStartsOver ==
  /\ (lastRun \in {"running", "ok", "failed"} /\ reads # <<>>) =>
       /\ reads[1].adr = Catalog[1].adr
       /\ reads[1].adr = 6
  /\ lastRun = "ok" =>
       \A i \in 1..Len(KostalRegister) :
         \E j \in 1..Len(reads) : reads[j].adr = AdrList(KostalRegister[i])[1]

\* a second run() has returned after the first one was left by a failed
\* read (KostalRegister was still empty when the second started)
C23_Witness ==
  /\ passes = 2
  /\ lastRun = "ok"
  /\ regAtStart = <<>>
  /\ Len(reads) = Len(ReadPlan)
  /\ reads[1].adr = 6

\* C24: KostalRegister is built anew by every successful run(): after a
\* further successful run() it has the same number of entries and the same
\* sequence of addresses as the successful run() before left, so as after
\* the first one; entries do not pile up.
C24_RegisterRebuilt ==
  (lastRun = "ok" /\ regAtStart # <<>>) =>
    /\ Len(KostalRegister) = Len(regAtStart)
    /\ \A i \in 1..Len(KostalRegister) :
         AdrList(KostalRegister[i])[1] = Descriptor(regAtStart[i]).adr

\* a second successful run() on the same object
C24_Witness ==
  /\ passes = 2
  /\ lastRun = "ok"
  /\ regAtStart # <<>>
  /\ Len(KostalRegister) = Len(AppendPlan)

\* C25: when run() has returned, every entry of KostalRegister holds the
\* value decoded from the answer to a read of its address issued during
\* that run() (for register 575 after the clamp): none holds the 0 of
\* __init__ or the value of an earlier pass instead.
C25_EveryEntryFresh ==
  lastRun = "ok" =>
    \A i \in 1..Len(KostalRegister) :
      LET a == KostalRegister[i]
      IN  \E j \in 1..Len(reads) :
            /\ reads[j].adr = AdrList(a)[1]
            /\ LET v == Decode(reads[j].fn,
                               read_holding_registers(dev, reads[j].adr, reads[j].count))
               IN  AdrList(a)[4] = IF a = 575 /\ v.n > 32766 THEN IntVal(0) ELSE v

\* a second successful run() on the same object, the device presenting an
\* image other than the first: register 6 holds the text of that image
C25_Witness ==
  /\ passes = 2
  /\ lastRun = "ok"
  /\ regAtStart # <<>>
  /\ Val(6).k = "s"
  /\ Val(6) # StrVal(<<65, 66, 67>>)
  /\ dev # 1

\* C26: within a run() that returns, the events come in this order: connect,
\* the reads one after the other, the building of KostalRegister, close, the
\* clamp of register 575.  So: no request before the client exists; while
\* the reads go on the session is there, exactly the reads before the
\* current statement have been issued and KostalRegister is still the one
\* of the start; it is built and the session closed only when all reads are
\* issued; after close no further read is issued; and register 575 keeps
\* the value as read until all that is done.
C26_EventsInOrder ==
  /\ client = "none" => reads = <<>>
  /\ pc = "reading" =>
       /\ client \in {"open", "down"}
       /\ Len(reads) = idx - 1
       /\ KostalRegister = regAtStart
  /\ pc = "build" =>
       /\ client = "open"
       /\ Len(reads) = Len(ReadPlan)
       /\ KostalRegister = regAtStart
  /\ pc = "close" =>
       /\ client = "open"
       /\ Len(reads) = Len(ReadPlan)
       /\ KostalRegister # <<>>
  /\ pc = "clamp" =>
       /\ client = "closed"
       /\ Len(reads) = Len(ReadPlan)
       /\ KostalRegister # <<>>
  /\ client = "closed" => Len(reads) = Len(ReadPlan)
  /\ lastRun = "ok" => (client = "closed" /\ Len(reads) = Len(ReadPlan))
  /\ (pc \in {"reading", "build", "close", "clamp"}
      /\ \E j \in 1..Len(reads) : reads[j].adr = 575) =>
       Val(575) = S16Decode(<<Reg(dev, 575)>>)

\* all reads are done, KostalRegister is built and the session closed, and
\* register 575 still holds the 32767 read: the clamp comes last
C26_Witness ==
  /\ pc = "clamp"
  /\ client = "closed"
  /\ KostalRegister = AppendPlan
  /\ Val(575) = IntVal(32767)

\* C22 as stated: the value ReadFloat returns, times 100, is the integer
\* nearest to 100 times the 32-bit float in the registers, and when that
\* float is the single nearest to a value with two decimals (its
\* re-encoding), ReadFloat returns that value.
C22_RoundedAndReencoded ==
  (ret.fn = "ReadFloat" /\ ret.val.k = "f") =>
    LET hi   == resp[2]
        lo   == resp[1]
        neg  == hi >= 32768
        e    == (hi % 32768) \div 128
        sig  == 8388608 + (hi % 128) * 65536 + lo
        h    == ret.val.n
        m    == IF h < 0 THEN 0 - h ELSE h
        \* m is an integer nearest to 100 * |float|
        nearest ==
          IF e < 118 THEN m = 0
          ELSE IF e < 148
            THEN LET D == Pow2(148 - e)
                 IN  2 * (m * D - 25 * sig) <= D /\ 2 * (25 * sig - m * D) <= D
          ELSE m = 25 * sig * Pow2(e - 148)
        \* |float| is the single nearest to v / 100: |v * K - 100 * sig| < 50
        encodes(v) ==
          IF e < 120 THEN v = 0 /\ e = 0 /\ hi % 128 = 0 /\ lo = 0
          ELSE LET K == Pow2(150 - e)
                   q == (100 * sig) \div K
                   r == (100 * sig) % K
               IN  IF K > 128
                     THEN (v = q /\ r < 50) \/ (v = q + 1 /\ K - r < 50)
                     ELSE v * K - 100 * sig < 50 /\ 100 * sig - v * K < 50
    IN  /\ nearest
        /\ h > 0 => ~neg
        /\ h < 0 => neg
        /\ \A v \in (m - 50)..(m + 50) :
             (v >= 0 /\ encodes(v)) => v = m

\* C22 amended: the same, the second part for values with two decimals of
\* magnitude below 131072 (2^17), where neighbouring singles are less than
\* 0.01 apart.
C22_RoundedAndReencodedBelow2p17 ==
  (ret.fn = "ReadFloat" /\ ret.val.k = "f") =>
    LET hi   == resp[2]
        lo   == resp[1]
        neg  == hi >= 32768
        e    == (hi % 32768) \div 128
        sig  == 8388608 + (hi % 128) * 65536 + lo
        h    == ret.val.n
        m    == IF h < 0 THEN 0 - h ELSE h
        \* m is an integer nearest to 100 * |float|
        nearest ==
          IF e < 118 THEN m = 0
          ELSE IF e < 148
            THEN LET D == Pow2(148 - e)
                 IN  2 * (m * D - 25 * sig) <= D /\ 2 * (25 * sig - m * D) <= D
          ELSE m = 25 * sig * Pow2(e - 148)
        \* |float| is the single nearest to v / 100: |v * K - 100 * sig| < 50
        encodes(v) ==
          IF e < 120 THEN v = 0 /\ e = 0 /\ hi % 128 = 0 /\ lo = 0
          ELSE LET K == Pow2(150 - e)
                   q == (100 * sig) \div K
                   r == (100 * sig) % K
               IN  IF K > 128
                     THEN (v = q /\ r < 50) \/ (v = q + 1 /\ K - r < 50)
                     ELSE v * K - 100 * sig < 50 /\ 100 * sig - v * K < 50
    IN  /\ nearest
        /\ h > 0 => ~neg
        /\ h < 0 => neg
        /\ \A v \in (m - 50)..(m + 50) :
             (v >= 0 /\ v < 13107200 /\ encodes(v)) => v = m

\* ReadFloat has decoded the single nearest to 1234.56 and returned 1234.56
C22_Witness ==
  /\ ret.fn = "ReadFloat"
  /\ resp = <<20972, 17562>>
  /\ ret.val = FloatVal(123456)
====
